---------------------------- MODULE Spec2Model ----------------------------
(***************************************************************************)
(* Model of scripts/youtube-transcript-extractor.py: the linear pipeline   *)
(* extract_video_id -> get_transcript -> clean_transcript ->               *)
(* create_blog_outline -> write, run once by main.                         *)
(*                                                                         *)
(* A Python str is a sequence of one-character strings.  An optional str   *)
(* (a str or None) is a record [is_none, text].                            *)
(***************************************************************************)
EXTENDS Integers, Sequences, FiniteSets, TLC

VARIABLES
    pc,                 \* position of main
    video_url,          \* main: video_url
    video_id,           \* main: video_id
    attempts,           \* calls of YouTubeTranscriptApi().fetch made so far
    transcript,         \* main: transcript (optional str)
    cleaned_transcript, \* main: cleaned_transcript
    sentences,          \* create_blog_outline: sentences
    groups,             \* create_blog_outline: each current_paragraph as appended
    paragraphs,         \* create_blog_outline: paragraphs
    top_words,          \* create_blog_outline: top_words
    outline,            \* main: outline (a sequence of lines)
    output_file,        \* content of the output file (optional)
    writes,             \* number of f.write calls
    stdout              \* diagnostics printed

vars == <<pc, video_url, video_id, attempts, transcript, cleaned_transcript,
          sentences, groups, paragraphs, top_words, outline, output_file,
          writes, stdout>>

---------------------------------------------------------------------------
(* Strings *)

NoneStr == [is_none |-> TRUE, text |-> <<>>]

Str(s) == [is_none |-> FALSE, text |-> s]

\* Python truthiness of an optional str: None and "" are falsy.
Truthy(t) == ~t.is_none /\ t.text # <<>>

Min(a, b) == IF a <= b THEN a ELSE b

\* s[p:] starts with lit (p is 1-based).
StartsAt(s, p, lit) ==
    /\ p >= 1
    /\ p + Len(lit) - 1 <= Len(s)
    /\ SubSeq(s, p, p + Len(lit) - 1) = lit

Contains(s, sub) == \E p \in 1..(Len(s) + 1) : StartsAt(s, p, sub)

---------------------------------------------------------------------------
(* extract_video_id *)

WatchVPrefix == <<"y", "o", "u", "t", "u", "b", "e", ".", "c", "o", "m", "/", "w", "a", "t", "c", "h", "?", "v", "=">>

ShortPrefix == <<"y", "o", "u", "t", "u", ".", "b", "e", "/">>

EmbedPrefix == <<"y", "o", "u", "t", "u", "b", "e", ".", "c", "o", "m", "/", "e", "m", "b", "e", "d", "/">>

WatchPrefix == <<"y", "o", "u", "t", "u", "b", "e", ".", "c", "o", "m", "/", "w", "a", "t", "c", "h", "?">>

VParam == <<"v", "=">>

\* The alternatives of the first pattern's non-capturing group, in order.
Pattern1Prefixes == <<WatchVPrefix, ShortPrefix, EmbedPrefix>>

\* As StopChars, without the '#'.
StopCharsNoHash == {"&", "\n", "?"}

\* The characters the capture group [^&\n?#]+ excludes.
StopChars == {"&", "\n", "?", "#"}

\* Last index of the greedy run of non-stop characters starting at q
\* (q - 1 when the run is empty).
CaptureEnd(s, q) ==
    CHOOSE e \in (q - 1)..Len(s) :
        /\ \A k \in q..e : s[k] \notin StopChars
        /\ (e = Len(s) \/ s[e + 1] \in StopChars)

\* What ([^&\n?#]+) captures at q; <<>> when it cannot match there.
Capture(s, q) == SubSeq(s, q, CaptureEnd(s, q))

\* The first pattern matches at p through alternative a.
Pattern1MatchesAt(s, p, a) ==
    /\ StartsAt(s, p, Pattern1Prefixes[a])
    /\ Capture(s, p + Len(Pattern1Prefixes[a])) # <<>>

\* re.search(patterns[0], url): the leftmost match, first alternative first.
Pattern1Search(s) ==
    LET hits == {p \in 1..Len(s) : \E a \in 1..3 : Pattern1MatchesAt(s, p, a)}
    IN  IF hits = {} THEN NoneStr
        ELSE LET p == CHOOSE x \in hits : \A y \in hits : x <= y
                 a == CHOOSE x \in 1..3 :
                          /\ Pattern1MatchesAt(s, p, x)
                          /\ \A y \in 1..3 : Pattern1MatchesAt(s, p, y) => x <= y
             IN  Str(Capture(s, p + Len(Pattern1Prefixes[a])))

\* The second pattern matches at p with its "v=" at q: ".*" covers
\* the characters between (none of them a newline).
Pattern2MatchesAt(s, p, q) ==
    /\ StartsAt(s, p, WatchPrefix)
    /\ q >= p + Len(WatchPrefix)
    /\ \A k \in (p + Len(WatchPrefix))..(q - 1) : s[k] # "\n"
    /\ StartsAt(s, q, VParam)
    /\ Capture(s, q + 2) # <<>>

\* re.search(patterns[1], url): the leftmost match; ".*" is greedy, so the
\* last "v=" that still lets the group match.
Pattern2Search(s) ==
    LET hits == {p \in 1..Len(s) : \E q \in 1..Len(s) : Pattern2MatchesAt(s, p, q)}
    IN  IF hits = {} THEN NoneStr
        ELSE LET p  == CHOOSE x \in hits : \A y \in hits : x <= y
                 qs == {q \in 1..Len(s) : Pattern2MatchesAt(s, p, q)}
                 q  == CHOOSE x \in qs : \A y \in qs : x >= y
             IN  Str(Capture(s, q + 2))

extract_video_id(url) ==
    IF ~Pattern1Search(url).is_none THEN Pattern1Search(url).text
    ELSE IF ~Pattern2Search(url).is_none THEN Pattern2Search(url).text
    ELSE url

---------------------------------------------------------------------------
(* get_transcript *)

RECURSIVE Join(_, _)
\* sep.join(parts)
Join(parts, sep) ==
    IF parts = <<>> THEN <<>>
    ELSE IF Len(parts) = 1 THEN parts[1]
    ELSE parts[1] \o sep \o Join(Tail(parts), sep)

\* As full_transcript, joining with no separator.
full_transcript_unspaced(transcript_list) == Join(transcript_list, <<>>)

\* ' '.join([entry.text for entry in transcript_list])
full_transcript(transcript_list) == Join(transcript_list, <<" ">>)

---------------------------------------------------------------------------
(* clean_transcript *)

\* The characters \s and str.strip() treat as whitespace (those the inputs use).
WhitespaceChars == {" ", "\t", "\n"}

RECURSIVE LStrip(_)
LStrip(s) ==
    IF s # <<>> /\ Head(s) \in WhitespaceChars THEN LStrip(Tail(s)) ELSE s

RECURSIVE RStrip(_)
RStrip(s) ==
    IF s # <<>> /\ s[Len(s)] \in WhitespaceChars
    THEN RStrip(SubSeq(s, 1, Len(s) - 1))
    ELSE s

\* str.strip()
Strip(s) == RStrip(LStrip(s))

RECURSIVE CollapseFrom(_, _)
\* re.sub(r'\s+', ' ', s), from index i on: each maximal whitespace run
\* becomes one space.
CollapseFrom(s, i) ==
    IF i > Len(s) THEN <<>>
    ELSE IF s[i] \in WhitespaceChars
         THEN IF i > 1 /\ s[i - 1] \in WhitespaceChars
              THEN CollapseFrom(s, i + 1)
              ELSE <<" ">> \o CollapseFrom(s, i + 1)
         ELSE <<s[i]>> \o CollapseFrom(s, i + 1)

CollapseWhitespace(s) == CollapseFrom(s, 1)

\* Where the span opened at i closes: the nearest close after i with no
\* newline in between ('.' does not match a newline); 0 when there is none.
SpanClose(s, i, close) ==
    LET js == {j \in (i + 1)..Len(s) :
                  /\ s[j] = close
                  /\ \A k \in (i + 1)..(j - 1) : s[k] # "\n"}
    IN  IF js = {} THEN 0 ELSE CHOOSE j \in js : \A k \in js : j <= k

RECURSIVE RemoveSpansFrom(_, _, _, _)
\* re.sub of open.*?close by '', from index i on: matches are taken left
\* to right, each the shortest from its opening character.
RemoveSpansFrom(s, i, open, close) ==
    IF i > Len(s) THEN <<>>
    ELSE IF s[i] = open /\ SpanClose(s, i, close) # 0
         THEN RemoveSpansFrom(s, SpanClose(s, i, close) + 1, open, close)
         ELSE <<s[i]>> \o RemoveSpansFrom(s, i + 1, open, close)

RemoveSpans(s, open, close) == RemoveSpansFrom(s, 1, open, close)

\* clean_transcript, on an optional str.
clean_transcript(t) ==
    IF ~Truthy(t) THEN <<>>
    ELSE Strip(RemoveSpans(RemoveSpans(CollapseWhitespace(Strip(t.text)),
                                       "[", "]"),
                           "(", ")"))

---------------------------------------------------------------------------
(* create_blog_outline *)

\* The characters of the class [.!?]
SentenceEnd == {".", "!", "?"}

\* The j-th smallest element of a set of integers.
NthOf(S, j) == CHOOSE x \in S : Cardinality({y \in S : y <= x}) = j

\* Where the maximal runs of characters of class C start and end in s.
RunStarts(s, C) == {i \in 1..Len(s) : s[i] \in C /\ (i = 1 \/ s[i - 1] \notin C)}

RunEnds(s, C) == {i \in 1..Len(s) : s[i] \in C /\ (i = Len(s) \/ s[i + 1] \notin C)}

\* re.split(r'[.!?]+', s): the pieces around the maximal runs of sentence
\* enders, the (possibly empty) first and last ones included.
SplitOnEnders(s) ==
    LET starts == RunStarts(s, SentenceEnd)
        ends   == RunEnds(s, SentenceEnd)
        n      == Cardinality(starts)
    IN  [j \in 1..(n + 1) |->
            SubSeq(s,
                   IF j = 1 THEN 1 ELSE NthOf(ends, j - 1) + 1,
                   IF j = n + 1 THEN Len(s) ELSE NthOf(starts, j) - 1)]

RECURSIVE StripNonEmpty(_)
\* [s.strip() for s in pieces if s.strip()]
StripNonEmpty(pieces) ==
    IF pieces = <<>> THEN <<>>
    ELSE IF Strip(Head(pieces)) # <<>>
         THEN <<Strip(Head(pieces))>> \o StripNonEmpty(Tail(pieces))
         ELSE StripNonEmpty(Tail(pieces))

SplitSentences(t) == StripNonEmpty(SplitOnEnders(t))

\* A paragraph is closed once it holds this many sentences.
ParagraphSize == 4

\* As CloseParagraph, without the flush after the last sentence.
CloseParagraphNoFlush(current_paragraph, i, n) ==
    Len(current_paragraph) >= ParagraphSize

\* The condition that closes current_paragraph after sentence i was appended.
CloseParagraph(current_paragraph, i, n) ==
    Len(current_paragraph) >= ParagraphSize \/ i = n

RECURSIVE GroupFrom(_, _, _)
\* The grouping loop from sentence i on: the lists joined and appended to
\* paragraphs, in order.
GroupFrom(sents, i, current_paragraph) ==
    IF i > Len(sents) THEN <<>>
    ELSE LET cur == Append(current_paragraph, sents[i])
         IN  IF CloseParagraph(cur, i, Len(sents))
             THEN <<cur>> \o GroupFrom(sents, i + 1, <<>>)
             ELSE GroupFrom(sents, i + 1, cur)

GroupSentences(sents) == GroupFrom(sents, 1, <<>>)

JoinParagraphs(gs) == [g \in 1..Len(gs) |-> Join(gs[g], <<" ">>)]

Uppers == <<"A", "B", "C", "D", "E", "F", "G", "H", "I", "J", "K", "L", "M",
            "N", "O", "P", "Q", "R", "S", "T", "U", "V", "W", "X", "Y", "Z">>

Lowers == <<"a", "b", "c", "d", "e", "f", "g", "h", "i", "j", "k", "l", "m",
            "n", "o", "p", "q", "r", "s", "t", "u", "v", "w", "x", "y", "z">>

Digits == {"0", "1", "2", "3", "4", "5", "6", "7", "8", "9"}

IsUpper(c) == \E k \in 1..26 : Uppers[k] = c

IsLower(c) == \E k \in 1..26 : Lowers[k] = c

LowerChar(c) == IF IsUpper(c) THEN Lowers[CHOOSE k \in 1..26 : Uppers[k] = c] ELSE c

UpperChar(c) == IF IsLower(c) THEN Uppers[CHOOSE k \in 1..26 : Lowers[k] = c] ELSE c

\* str.lower()
Lower(s) == [k \in 1..Len(s) |-> LowerChar(s[k])]

\* str.capitalize()
Capitalize(s) == [k \in 1..Len(s) |-> IF k = 1 THEN UpperChar(s[k]) ELSE LowerChar(s[k])]

\* The characters \w matches (those the inputs use).
WordChars ==
    {Lowers[k] : k \in 1..26} \cup {Uppers[k] : k \in 1..26} \cup Digits \cup {"_"}

\* re.findall(r'\b\w+\b', s): the maximal runs of word characters, in order.
FindWords(s) ==
    LET starts == RunStarts(s, WordChars)
        ends   == RunEnds(s, WordChars)
    IN  [j \in 1..Cardinality(starts) |-> SubSeq(s, NthOf(starts, j), NthOf(ends, j))]

\* Only words longer than this are counted.
MinWordLen == 4

\* Only words with more occurrences than this get a bullet.
MinFreq == 2

\* The number of top entries considered.
TopN == 10

\* The test that admits a word to word_freq.
CountsAsWord(word) == Len(word) > MinWordLen

\* word_freq[word] = word_freq.get(word, 0) + 1, on a dict kept as the
\* sequence of its items in insertion order.
Increment(word_freq, word) ==
    IF \E k \in 1..Len(word_freq) : word_freq[k].word = word
    THEN [k \in 1..Len(word_freq) |->
             IF word_freq[k].word = word
             THEN [word |-> word, freq |-> word_freq[k].freq + 1]
             ELSE word_freq[k]]
    ELSE Append(word_freq, [word |-> word, freq |-> 1])

RECURSIVE CountFrom(_, _, _)
\* The counting loop from word i on.
CountFrom(words, i, word_freq) ==
    IF i > Len(words) THEN word_freq
    ELSE IF CountsAsWord(words[i])
         THEN CountFrom(words, i + 1, Increment(word_freq, words[i]))
         ELSE CountFrom(words, i + 1, word_freq)

WordFreq(t) == CountFrom(FindWords(Lower(t)), 1, <<>>)

\* As InsertPos, for a sort that puts an item before its equals.
InsertPosBeforeEquals(srt, x) ==
    Cardinality({k \in 1..Len(srt) : srt[k].freq > x.freq}) + 1

\* Where a stable descending sort puts item x in the sorted sequence srt
\* of the items before it: after every item whose freq is not smaller.
InsertPos(srt, x) ==
    Cardinality({k \in 1..Len(srt) : srt[k].freq >= x.freq}) + 1

RECURSIVE SortedFrom(_, _, _)
\* sorted(items, key=lambda x: x[1], reverse=True): stable, so items of
\* equal freq keep their order.
SortedFrom(items, i, srt) ==
    IF i > Len(items) THEN srt
    ELSE LET p == InsertPos(srt, items[i])
         IN  SortedFrom(items, i + 1,
                        SubSeq(srt, 1, p - 1) \o <<items[i]>> \o SubSeq(srt, p, Len(srt)))

SortedByFreq(items) == SortedFrom(items, 1, <<>>)

\* sorted(...)[:10]
TopWords(t) ==
    LET srt == SortedByFreq(WordFreq(t))
    IN  SubSeq(srt, 1, Min(TopN, Len(srt)))

\* As GetsBullet, with >= for >.
GetsBulletAtThreshold(w) == w.freq >= MinFreq

\* The test that gives a top word its bullet.
GetsBullet(w) == w.freq > MinFreq

Line(kind, n, text) == [kind |-> kind, n |-> n, text |-> text]

NoContent == <<"N", "o", " ", "t", "r", "a", "n", "s", "c", "r", "i", "p", "t", " ", "c", "o", "n", "t", "e", "n", "t", " ", "a", "v", "a", "i", "l", "a", "b", "l", "e", ".">>

\* The Introduction's body.
Introduction(paras) == IF paras # <<>> THEN paras[1] ELSE NoContent

\* The "### Section i" blocks for paragraphs[1:], numbered from 1.
RECURSIVE SectionsFrom(_, _)
SectionsFrom(paras, i) ==
    IF i > Len(paras) - 1 THEN <<>>
    ELSE <<Line("h3_section", i, <<>>), Line("text", 0, paras[i + 1])>>
         \o SectionsFrom(paras, i + 1)

\* As Sections, over paragraphs instead of paragraphs[1:].
SectionsOfAll(paras) == SectionsFrom(<<<<>>>> \o paras, 1)

Sections(paras) == SectionsFrom(paras, 1)

RECURSIVE BulletsFrom(_, _)
\* The bullet loop over top_words from index i on.
BulletsFrom(tw, i) ==
    IF i > Len(tw) THEN <<>>
    ELSE IF GetsBullet(tw[i])
         THEN <<Line("bullet", tw[i].freq, Capitalize(tw[i].word))>> \o BulletsFrom(tw, i + 1)
         ELSE BulletsFrom(tw, i + 1)

Bullets(tw) == BulletsFrom(tw, 1)

\* The document, as its non-blank lines in order.
create_blog_outline(t, url) ==
    LET paras == JoinParagraphs(GroupSentences(SplitSentences(t)))
    IN  <<Line("h1_title", 0, <<>>),
          Line("source", 0, url),
          Line("h2_introduction", 0, <<>>),
          Line("text", 0, Introduction(paras)),
          Line("h2_main_content", 0, <<>>)>>
        \o Sections(paras)
        \o <<Line("h2_key_takeaways", 0, <<>>),
             Line("lead_in", 0, <<>>)>>
        \o Bullets(TopWords(t))
        \o <<Line("h2_conclusion", 0, <<>>),
             Line("conclusion", 0, <<>>),
             Line("rule", 0, <<>>),
             Line("note", 0, <<>>)>>

---------------------------------------------------------------------------
(* Inputs *)

\* main: video_url
HardcodedUrl == <<"h", "t", "t", "p", "s", ":", "/", "/", "w", "w", "w", ".", "y", "o", "u", "t", "u", "b", "e", ".", "c", "o", "m", "/", "w", "a", "t", "c", "h", "?", "v", "=", "5", "z", "F", "U", "B", "D", "2", "r", "R", "i", "s">>

\* The fragment texts a caption track is made of.
FragmentTexts == {<<>>, <<" ">>, <<"[", "M", "u", "s", "i", "c", "]">>, <<"H", "i", " ", "a", "l", "l", ".">>, <<"(", "x", ")", " ", "o", "k", "!">>}

\* The most fragments a fetched track holds.
MaxFragments == 2

RECURSIVE SeqsUpTo(_, _)
\* The sequences over S of length at most n.
SeqsUpTo(S, n) ==
    IF n = 0 THEN {<<>>}
    ELSE LET shorter == SeqsUpTo(S, n - 1)
         IN  shorter \cup {Append(s, x) : s \in shorter, x \in S}

\* What one call of YouTubeTranscriptApi().fetch can do: raise, or return
\* the track's fragments in order.
FetchOutcomes ==
    {[ok |-> FALSE, fragments |-> <<>>]}
    \cup {[ok |-> TRUE, fragments |-> f] : f \in SeqsUpTo(FragmentTexts, MaxFragments)}

\* extract_video_id's inputs: prefix, URL shape, identifier, what follows.
UrlPrefixes == {<<>>, <<"h", "t", "t", "p", "s", ":", "/", "/", "w", "w", "w", ".">>, <<"m", ".">>}

UrlShapes == {<<>>, WatchVPrefix, ShortPrefix, EmbedPrefix,
              <<"y", "o", "u", "t", "u", "b", "e", ".", "c", "o", "m", "/", "w", "a", "t", "c", "h", "?", "t", "=", "1", "&", "v", "=">>, <<"v", "i", "m", "e", "o", ".", "c", "o", "m", "/", "w", "a", "t", "c", "h", "?", "v", "=">>, <<"y", "t", ".", "c", "o", "/", "e", "m", "b", "e", "d", "/">>}

Identifiers == {<<"5", "z", "F", "U", "B", "D", "2", "r", "R", "i", "s">>, <<"a", "_", "-", "Z">>, <<"0">>}

UrlSuffixes == {<<>>, <<"&", "t", "=", "1", "s">>, <<"?", "t", "=", "1">>, <<"#", "t", "o", "p">>, <<"&", "r", "e", "v", "=", "2">>,
                <<"&", "u", "=", "y", "o", "u", "t", "u", ".", "b", "e", "/", "z", "z">>, <<"\n">>}

UrlInputs ==
    {p \o sh \o id \o su : p \in UrlPrefixes, sh \in UrlShapes,
                           id \in Identifiers, su \in UrlSuffixes}

\* clean_transcript's inputs: every short string over these characters, and
\* the documented examples.
RawChars == {"a", " ", "\n", "[", "]", "(", ")"}

MaxRawLen == 4

HelloExample == <<"H", "e", "l", "l", "o", " ", "[", "M", "u", "s", "i", "c", "]", " ", "w", "o", "r", "l", "d", " ", "(", "l", "a", "u", "g", "h", "s", ")", " ", "t", "o", "d", "a", "y">>

RawExamples == {HelloExample, <<"a", " ", "[", "]", " ", "a">>, <<"a", " ", "[", "b", " ", "[", "c", "]", " ", "d", "]", " ", "e">>, <<"a", " ", "(", "b">>}

RawInputs == SeqsUpTo(RawChars, MaxRawLen) \cup RawExamples

\* create_blog_outline's inputs (1): n numbered sentences, in three
\* punctuation styles.
MaxSentences == 9

DigitChars == <<"0", "1", "2", "3", "4", "5", "6", "7", "8", "9">>

SentenceText(i) ==
    IF i % 2 = 1 THEN <<"s", DigitChars[(i % 10) + 1]>>
    ELSE <<"s", DigitChars[(i % 10) + 1], " ", "x">>

RECURSIVE SentenceInput(_, _, _)
SentenceInput(i, n, style) ==
    IF i > n THEN <<>>
    ELSE (CASE style = 1 -> SentenceText(i) \o <<".", " ">>
            [] style = 2 -> SentenceText(i) \o (IF i = n THEN <<>> ELSE <<"!", "?">>)
            [] OTHER     -> <<".", ".", " ">> \o SentenceText(i) \o <<" ", "?">>)
         \o SentenceInput(i + 1, n, style)

SentenceInputs == {SentenceInput(1, n, style) : n \in 0..MaxSentences, style \in 1..3}

\* create_blog_outline's inputs (2): the first m vocabulary words, forwards
\* or backwards, said r times over, then the last k of them once more,
\* capitalized and comma-separated.
Vocabulary == <<<<"a", "l", "p", "h", "a">>,
               <<"b", "e", "t", "a">>,
               <<"g", "a", "m", "m", "a">>,
               <<"d", "e", "l", "t", "a">>,
               <<"t", "h", "e", "t", "a">>,
               <<"k", "a", "p", "p", "a">>,
               <<"s", "i", "g", "m", "a">>,
               <<"o", "m", "e", "g", "a">>,
               <<"v", "i", "d", "e", "o">>,
               <<"w", "o", "r", "d", "s">>,
               <<"a", "b", "o", "u", "t">>,
               <<"t", "h", "i", "n", "k">>,
               <<"r", "i", "g", "h", "t">>,
               <<"t", "h", "e", "s", "e">>>>

NumWords == 12

MaxRepeat == 3

WordOrder(m, dir) == [j \in 1..m |-> IF dir = 1 THEN Vocabulary[j] ELSE Vocabulary[m + 1 - j]]

RECURSIVE Repeat(_, _)
Repeat(s, r) == IF r = 0 THEN <<>> ELSE s \o Repeat(s, r - 1)

WordInput(m, r, k, dir) ==
    LET base == WordOrder(m, dir)
        tail == [j \in 1..k |-> Capitalize(base[m - k + j])]
    IN  Join(Repeat(base, r), <<" ">>)
        \o (IF k = 0 THEN <<>> ELSE <<".", " ">> \o Join(tail, <<",", " ">>))

AlphaExample == <<"a", "l", "p", "h", "a", " ", "a", "l", "p", "h", "a", " ", "a", "l", "p", "h", "a", " ", "b", "e", "t", "a", " ", "b", "e", "t", "a", " ", "g", "a", "m", "m", "a">>

WordInputs ==
    UNION {{WordInput(m, r, k, dir) : r \in 2..MaxRepeat, k \in 0..m, dir \in 1..2}
           : m \in 0..NumWords}
    \cup {AlphaExample}

OutlineInputs == SentenceInputs \cup WordInputs

---------------------------------------------------------------------------
(* main *)

NoFile == [exists |-> FALSE, content |-> <<>>]

\* The state with main at position at, holding the given video_url,
\* transcript and cleaned_transcript, and nothing else done yet.
Start(at, url, t, c) ==
    /\ pc = at
    /\ video_url = url
    /\ video_id = <<>>
    /\ attempts = <<>>
    /\ transcript = t
    /\ cleaned_transcript = c
    /\ sentences = <<>>
    /\ groups = <<>>
    /\ paragraphs = <<>>
    /\ top_words = <<>>
    /\ outline = <<>>
    /\ output_file = NoFile
    /\ writes = 0
    /\ stdout = <<>>

Init == Start("extract", HardcodedUrl, NoneStr, <<>>)

\* video_id = extract_video_id(video_url)
ExtractId ==
    /\ pc = "extract"
    /\ video_id' = extract_video_id(video_url)
    /\ pc' = "fetch_en"
    /\ stdout' = stdout \o <<"Extracting transcript from", "Video ID", "Fetching transcript">>
    /\ UNCHANGED <<video_url, attempts, transcript, cleaned_transcript, sentences,
                   groups, paragraphs, top_words, outline, output_file, writes>>

\* get_transcript's try block: fetch(video_id, languages=['en']).
FetchPreferred ==
    /\ pc = "fetch_en"
    /\ \E r \in FetchOutcomes :
          /\ attempts' = Append(attempts, [languages |-> "en", ok |-> r.ok,
                                           fragments |-> r.fragments])
          /\ IF r.ok
             THEN /\ transcript' = Str(full_transcript(r.fragments))
                  /\ pc' = "fetched"
             ELSE /\ transcript' = transcript
                  /\ pc' = "fetch_any"
    /\ UNCHANGED <<video_url, video_id, cleaned_transcript, sentences, groups,
                   paragraphs, top_words, outline, output_file, writes, stdout>>

\* As FetchAny, but a failed any-language fetch is tried again.
FetchAnyAgain ==
    /\ pc = "fetch_any"
    /\ \E r \in FetchOutcomes :
          /\ attempts' = Append(attempts, [languages |-> "any", ok |-> r.ok,
                                           fragments |-> r.fragments])
          /\ IF r.ok
             THEN /\ transcript' = Str(full_transcript(r.fragments))
                  /\ pc' = "fetched"
             ELSE /\ transcript' = transcript
                  /\ pc' = "fetch_any"
    /\ UNCHANGED <<video_url, video_id, cleaned_transcript, sentences, groups,
                   paragraphs, top_words, outline, output_file, writes, stdout>>

\* get_transcript's except block: fetch(video_id), and None when it raises too.
FetchAny ==
    /\ pc = "fetch_any"
    /\ \E r \in FetchOutcomes :
          /\ attempts' = Append(attempts, [languages |-> "any", ok |-> r.ok,
                                           fragments |-> r.fragments])
          /\ IF r.ok
             THEN /\ transcript' = Str(full_transcript(r.fragments))
                  /\ stdout' = stdout
             ELSE /\ transcript' = NoneStr
                  /\ stdout' = Append(stdout, "Error getting transcript")
    /\ pc' = "fetched"
    /\ UNCHANGED <<video_url, video_id, cleaned_transcript, sentences, groups,
                   paragraphs, top_words, outline, output_file, writes>>

\* main's test of what get_transcript returned.
NoTranscript(t) == ~Truthy(t)

\* As Abort, without the return: main goes on to the next statement.
AbortNoReturn ==
    /\ pc = "fetched"
    /\ NoTranscript(transcript)
    /\ stdout' = Append(stdout, "Could not retrieve transcript")
    /\ cleaned_transcript' = clean_transcript(transcript)
    /\ pc' = "outline"
    /\ UNCHANGED <<video_url, video_id, attempts, transcript, sentences, groups,
                   paragraphs, top_words, outline, output_file, writes>>

\* if not transcript: print(...); return
Abort ==
    /\ pc = "fetched"
    /\ NoTranscript(transcript)
    /\ stdout' = Append(stdout, "Could not retrieve transcript")
    /\ pc' = "aborted"
    /\ UNCHANGED <<video_url, video_id, attempts, transcript, cleaned_transcript,
                   sentences, groups, paragraphs, top_words, outline, output_file,
                   writes>>

\* cleaned_transcript = clean_transcript(transcript)
CleanCall ==
    /\ pc = "fetched"
    /\ cleaned_transcript' = clean_transcript(transcript)
    /\ pc' = "outline"
    /\ stdout' = Append(stdout, "Transcript length")
    /\ UNCHANGED <<video_url, video_id, attempts, transcript, sentences, groups,
                   paragraphs, top_words, outline, output_file, writes>>

\* main reaches the call only with a transcript.
Clean == ~NoTranscript(transcript) /\ CleanCall

\* outline = create_blog_outline(cleaned_transcript, video_url)
Outline ==
    /\ pc = "outline"
    /\ sentences' = SplitSentences(cleaned_transcript)
    /\ groups' = GroupSentences(sentences')
    /\ paragraphs' = JoinParagraphs(groups')
    /\ top_words' = TopWords(cleaned_transcript)
    /\ outline' = create_blog_outline(cleaned_transcript, video_url)
    /\ pc' = "write"
    /\ stdout' = Append(stdout, "Creating blog-style outline")
    /\ UNCHANGED <<video_url, video_id, attempts, transcript, cleaned_transcript,
                   output_file, writes>>

\* with open(output_file, 'w') as f: f.write(outline), and the preview.
Write ==
    /\ pc = "write"
    /\ output_file' = [exists |-> TRUE, content |-> outline]
    /\ writes' = writes + 1
    /\ stdout' = stdout \o <<"Blog outline saved to", "BLOG OUTLINE PREVIEW">>
    /\ pc' = "done"
    /\ UNCHANGED <<video_url, video_id, attempts, transcript, cleaned_transcript,
                   sentences, groups, paragraphs, top_words, outline>>

\* open() raises (missing directory, no permission): nothing handles it.
WriteFails ==
    /\ pc = "write"
    /\ pc' = "crashed"
    /\ UNCHANGED <<video_url, video_id, attempts, transcript, cleaned_transcript,
                   sentences, groups, paragraphs, top_words, outline, output_file,
                   writes, stdout>>

Next ==
    \/ ExtractId
    \/ FetchPreferred
    \/ FetchAny
    \/ Abort
    \/ Clean
    \/ Outline
    \/ Write
    \/ WriteFails

\* One run of main.
Spec == Init /\ [][Next]_vars

\* extract_video_id applied to each input.
InitExtract == \E url \in UrlInputs : Start("extract", url, NoneStr, <<>>)

NextExtract == ExtractId

SpecExtract == InitExtract /\ [][NextExtract]_vars

\* clean_transcript applied to each input.
InitClean ==
    \E t \in {NoneStr} \cup {Str(s) : s \in RawInputs} :
        Start("fetched", HardcodedUrl, t, <<>>)

NextClean == CleanCall

SpecClean == InitClean /\ [][NextClean]_vars

\* create_blog_outline applied to each input.
InitOutline ==
    \E t \in OutlineInputs :
        Start("outline", HardcodedUrl, NoneStr, t)

NextOutline == Outline

SpecOutline == InitOutline /\ [][NextOutline]_vars

---------------------------------------------------------------------------
(* Properties of main and get_transcript, under Spec *)

\* get_transcript has returned.
Returned == pc \notin {"extract", "fetch_en", "fetch_any"}

\* t is the texts of parts in order, with one space between neighbours.
Offset(parts, i) ==
    LET RECURSIVE Before(_)
        Before(j) == IF j = 0 THEN 0 ELSE Before(j - 1) + Len(parts[j]) + 1
    IN  Before(i - 1)

IsSpaceJoined(parts, t) ==
    /\ Len(t) = IF parts = <<>> THEN 0 ELSE Offset(parts, Len(parts) + 1) - 1
    /\ \A i \in 1..Len(parts) :
          /\ SubSeq(t, Offset(parts, i) + 1, Offset(parts, i) + Len(parts[i])) = parts[i]
          /\ i > 1 => t[Offset(parts, i)] = " "

\* The preferred-language attempt failed and the any-language attempt
\* returned a transcript with text in it.
FallbackGaveTranscript ==
    /\ Returned
    /\ Len(attempts) = 2
    /\ ~attempts[1].ok
    /\ attempts[2].ok
    /\ full_transcript(attempts[2].fragments) # <<>>

\* C1: when the 'en' attempt fails and the any-language attempt succeeds
\* with a (non-empty) transcript, main does not take the no-transcript
\* return: the transcript is the fallback's fragments in order with single
\* spaces between them, it is what is cleaned and formatted, and a run that
\* finishes has written that outline to the output file.
C1_FallbackProceeds ==
    FallbackGaveTranscript =>
        /\ pc # "aborted"
        /\ "Could not retrieve transcript" \notin {stdout[i] : i \in 1..Len(stdout)}
        /\ ~transcript.is_none
        /\ IsSpaceJoined(attempts[2].fragments, transcript.text)
        /\ pc \in {"outline", "write", "done", "crashed"} =>
              cleaned_transcript = clean_transcript(transcript)
        /\ pc \in {"write", "done", "crashed"} =>
              outline = create_blog_outline(cleaned_transcript, video_url)
        /\ pc = "done" =>
              /\ writes = 1
              /\ output_file = [exists |-> TRUE, content |-> outline]

C1_Witness ==
    /\ FallbackGaveTranscript
    /\ Len(attempts[2].fragments) = 2
    /\ pc = "done"
    /\ output_file.exists

\* C2: the attempts of get_transcript are ordered and bounded: the first
\* asks for 'en'; an any-language attempt comes only after a failed 'en'
\* attempt and at most once; there are never more than two attempts; and
\* None is returned exactly when both attempts failed.
C2_AttemptsOrderedAndBounded ==
    /\ Len(attempts) <= 2
    /\ Len(attempts) >= 1 => attempts[1].languages = "en"
    /\ \A i \in 1..Len(attempts) :
          attempts[i].languages = "any" => (i = 2 /\ ~attempts[1].ok)
    /\ Cardinality({i \in 1..Len(attempts) : attempts[i].languages = "any"}) <= 1
    /\ Returned =>
          /\ Len(attempts) >= 1
          /\ transcript.is_none <=>
                (Len(attempts) = 2 /\ ~attempts[1].ok /\ ~attempts[2].ok)

C2_Witness ==
    /\ pc = "fetched"
    /\ Len(attempts) = 2
    /\ ~attempts[2].ok
    /\ transcript.is_none

\* Both attempts failed.
BothFailed == Len(attempts) = 2 /\ ~attempts[1].ok /\ ~attempts[2].ok

\* What main has printed when it gets to the write, less get_transcript's
\* own message.
StepsInOrder ==
    <<"Extracting transcript from", "Video ID", "Fetching transcript",
      "Transcript length", "Creating blog-style outline">>

\* C3: the output file is written at most once, and only as the last step,
\* after extract, fetch, clean and format completed in that order; when the
\* fetch yields no transcript because both attempts failed, main prints the
\* diagnostic and ends without any write.
C3_WriteOnceAtTheEnd ==
    /\ writes <= 1
    /\ output_file.exists <=> writes = 1
    /\ writes = 1 =>
          /\ pc = "done"
          /\ video_id = extract_video_id(video_url)
          /\ attempts # <<>> /\ attempts[Len(attempts)].ok
          /\ transcript = Str(full_transcript(attempts[Len(attempts)].fragments))
          /\ cleaned_transcript = clean_transcript(transcript)
          /\ outline = create_blog_outline(cleaned_transcript, video_url)
          /\ output_file.content = outline
          /\ SelectSeq(stdout, LAMBDA m : m # "Error getting transcript")
                = StepsInOrder \o <<"Blog outline saved to", "BLOG OUTLINE PREVIEW">>
    /\ (Returned /\ BothFailed) =>
          /\ pc \in {"fetched", "aborted"}
          /\ writes = 0
          /\ pc = "aborted" => stdout[Len(stdout)] = "Could not retrieve transcript"

C3_Witness ==
    /\ pc = "done"
    /\ writes = 1
    /\ Len(attempts) = 2
    /\ output_file.content = outline
    /\ outline[4].text # NoContent

\* C4: whenever a fetch attempt succeeds, whatever it returns (no
\* fragments, only empty fragments, only bracketed noise), main does not
\* take the no-transcript return, and a finished run whose cleaned
\* transcript is empty has written the outline whose Introduction is
\* "No transcript content available.".
C4_AnySuccessIsWritten ==
    (Returned /\ attempts[Len(attempts)].ok) =>
        /\ pc # "aborted"
        /\ (pc = "done" /\ cleaned_transcript = <<>>) =>
              /\ outline[4] = Line("text", 0, NoContent)
              /\ output_file = [exists |-> TRUE, content |-> outline]

---------------------------------------------------------------------------
(* Properties of clean_transcript, under SpecClean *)

\* No leading or trailing whitespace and no two adjacent whitespace
\* characters.
IsCollapsed(s) ==
    /\ s # <<>> => (s[1] \notin WhitespaceChars /\ s[Len(s)] \notin WhitespaceChars)
    /\ \A i \in 1..(Len(s) - 1) :
          ~(s[i] \in WhitespaceChars /\ s[i + 1] \in WhitespaceChars)

\* C6: the result of clean_transcript is whitespace-collapsed for every
\* input, also where a removed [..] or (..) stood between two words, and
\* "Hello [Music] world (laughs) today" gives "Hello world today".
C6_ResultIsCollapsed ==
    pc = "outline" =>
        /\ IsCollapsed(cleaned_transcript)
        /\ transcript = Str(HelloExample) => cleaned_transcript = <<"H", "e", "l", "l", "o", " ", "w", "o", "r", "l", "d", " ", "t", "o", "d", "a", "y">>

---------------------------------------------------------------------------
(* Properties of create_blog_outline, under SpecOutline *)

\* create_blog_outline has returned.
Formatted == pc = "write"

\* C5: n sentences give ceil(n/4) paragraphs, each but the last of exactly 4
\* sentences, the last of 1 to 4, none empty, and together the sentences in
\* their order, none lost or repeated; 5 sentences give sentences 1-4 and
\* sentence 5 alone.
C5_GroupsOfFour ==
    Formatted =>
        LET n == Len(sentences)
            k == Len(groups)
        IN  /\ k = (n + 3) \div 4
            /\ Len(paragraphs) = k
            /\ \A g \in 1..k :
                  /\ g < k => Len(groups[g]) = 4
                  /\ Len(groups[g]) \in 1..4
                  /\ paragraphs[g] # <<>>
                  /\ IsSpaceJoined(groups[g], paragraphs[g])
            /\ \A j \in 1..n : groups[((j - 1) \div 4) + 1][((j - 1) % 4) + 1] = sentences[j]
            /\ k > 0 => Len(groups[k]) = n - 4 * (k - 1)
            /\ n = 5 => groups = <<SubSeq(sentences, 1, 4), <<sentences[5]>>>>

C5_Witness ==
    /\ Formatted
    /\ Len(sentences) = 5
    /\ Len(paragraphs) = 2
    /\ Len(groups[2]) = 1

\* Where the "### Section" headings stand in the document.
SectionHeadings == {i \in 1..Len(outline) : outline[i].kind = "h3_section"}

\* C7: with k paragraphs the Introduction holds paragraph 1 and there are
\* exactly max(k-1, 0) Section blocks, numbered 1..k-1 and holding
\* paragraphs 2..k in order; with k = 0 the Introduction holds "No
\* transcript content available." and there is no Section block.
C7_SectionsFollowIntroduction ==
    Formatted =>
        LET k == Len(paragraphs)
        IN  /\ outline[3].kind = "h2_introduction"
            /\ outline[4] = Line("text", 0, IF k = 0 THEN NoContent ELSE paragraphs[1])
            /\ outline[5].kind = "h2_main_content"
            /\ Cardinality(SectionHeadings) = IF k = 0 THEN 0 ELSE k - 1
            /\ \A N \in 1..(k - 1) :
                  /\ outline[4 + 2 * N] = Line("h3_section", N, <<>>)
                  /\ outline[5 + 2 * N] = Line("text", 0, paragraphs[N + 1])
            /\ outline[4 + 2 * (IF k = 0 THEN 1 ELSE k)].kind = "h2_key_takeaways"

C7_Witness ==
    /\ Formatted
    /\ Len(paragraphs) = 3
    /\ Cardinality(SectionHeadings) = 2

\* The bullets of the document, in order.
BulletLines == SelectSeq(outline, LAMBDA l : l.kind = "bullet")

\* Word w stands at position i of s as a whole word.
WholeWordAt(s, i, w) ==
    /\ StartsAt(s, i, w)
    /\ i = 1 \/ s[i - 1] \notin WordChars
    /\ i + Len(w) > Len(s) \/ s[i + Len(w)] \notin WordChars

\* Where w stands in s as a whole word.
Positions(s, w) == {i \in 1..Len(s) : WholeWordAt(s, i, w)}

\* The least element of a non-empty set of integers.
Least(S) == CHOOSE i \in S : \A j \in S : i <= j

\* For each distinct word of the lowercased transcript: how often it
\* occurs as a whole word, and where first.
WordStats ==
    LET lowered == Lower(cleaned_transcript) \o <<>>
        found   == FindWords(lowered) \o <<>>
    IN  {[word  |-> w,
          count |-> Cardinality(Positions(lowered, w)),
          first |-> Least(Positions(lowered, w))] : w \in {found[j] : j \in 1..Len(found)}}

\* The words that qualify for a bullet: longer than 4 characters and
\* occurring more than 2 times.
QualifyingIn(stats) == {s \in stats : Len(s.word) > 4 /\ s.count > 2}

\* C8: a bullet is emitted for a word only if the lowercased word is longer
\* than 4 characters and occurs more than 2 times; the count shown is the
\* word's number of occurrences; no word has two bullets; there are
\* min(10, number of qualifying words) bullets; and "alpha alpha alpha beta
\* beta gamma" gives the one bullet Alpha, 3 times.
C8_BulletsAreFrequentLongWords ==
    Formatted =>
        LET qualifying == QualifyingIn(WordStats)
            bullets    == BulletLines
        IN  /\ \A b \in 1..Len(bullets) :
                  /\ \E s \in qualifying :
                        /\ bullets[b].text = Capitalize(s.word)
                        /\ bullets[b].n = s.count
                  /\ \A c \in 1..Len(bullets) :
                        bullets[c].text = bullets[b].text => c = b
            /\ Len(bullets) <= 10
            /\ Len(bullets) = Min(10, Cardinality(qualifying))
            /\ cleaned_transcript = AlphaExample =>
                  bullets = <<Line("bullet", 3, <<"A", "l", "p", "h", "a">>)>>

C8_Witness ==
    /\ Formatted
    /\ Len(BulletLines) = 10
    /\ LET stats == WordStats
       IN  /\ Cardinality(QualifyingIn(stats)) > 10
           /\ \E s \in stats : Len(s.word) <= 4 /\ s.count > 2

\* Word v ranks before word w: more occurrences, or as many and an
\* earlier first occurrence.
RanksBefore(v, w) ==
    \/ v.count > w.count
    \/ v.count = w.count /\ v.first < w.first

\* The qualifying words shown as bullets, in bullet order.
ShownIn(qualifying, bullets) ==
    [b \in 1..Len(bullets) |->
        CHOOSE s \in qualifying : Capitalize(s.word) = bullets[b].text] \o <<>>

\* C9: the bullet order is fixed by the input: bullets come in descending
\* count order and, among words of equal count, in the order of their
\* first occurrence; the same rule decides which tied words survive the
\* top-10 cut.
C9_BulletOrderIsDetermined ==
    Formatted =>
        LET qualifying == QualifyingIn(WordStats)
            bullets    == BulletLines
            shown      == ShownIn(qualifying, bullets)
            hidden     == qualifying \ {shown[b] : b \in 1..Len(shown)}
        IN  /\ \A b \in 1..Len(bullets) :
                  \E s \in qualifying : Capitalize(s.word) = bullets[b].text
            /\ \A b \in 1..(Len(shown) - 1) : RanksBefore(shown[b], shown[b + 1])
            /\ \A v \in hidden : \A b \in 1..Len(shown) : RanksBefore(shown[b], v)

C9_Witness ==
    /\ Formatted
    /\ Len(BulletLines) = 10
    /\ LET qualifying == QualifyingIn(WordStats)
           shown      == ShownIn(qualifying, BulletLines)
       IN  /\ Cardinality(qualifying) > 10
           /\ shown[1].count > shown[2].count
           /\ shown[2].count = shown[3].count
           /\ shown[10].count = shown[3].count
           /\ shown[1].first > shown[2].first

---------------------------------------------------------------------------
(* Properties of extract_video_id, under SpecExtract *)

\* The three recognized URL shapes.
RecognizedShapes == {WatchVPrefix, ShortPrefix, EmbedPrefix}

\* Nothing, query parameters or a fragment.
QueryOrFragment == {su \in UrlSuffixes : su = <<>> \/ su[1] \in {"&", "?", "#"}}

IdentifierChars ==
    {Lowers[k] : k \in 1..26} \cup {Uppers[k] : k \in 1..26} \cup Digits \cup {"_", "-"}

\* A recognized shape with identifier I returns I.
ShapesGiveIdentifier ==
    \A p \in UrlPrefixes, sh \in RecognizedShapes, id \in Identifiers, su \in QueryOrFragment :
        (/\ \A i \in 1..Len(id) : id[i] \in IdentifierChars
         /\ video_url = p \o sh \o id \o su)
        => video_id = id

\* The input holds none of "watch?v=", "youtu.be/", "embed/".
NoShapeSubstring ==
    /\ ~Contains(video_url, <<"w", "a", "t", "c", "h", "?", "v", "=">>)
    /\ ~Contains(video_url, <<"y", "o", "u", "t", "u", ".", "b", "e", "/">>)
    /\ ~Contains(video_url, <<"e", "m", "b", "e", "d", "/">>)

\* C10 as stated: a recognized shape with identifier I returns I, whatever
\* query or fragment follows; an input holding none of the three
\* substrings is returned unchanged.
C10_AsStated ==
    pc = "fetch_en" =>
        /\ ShapesGiveIdentifier
        /\ NoShapeSubstring => video_id = video_url

\* C10, amended: a recognized shape with identifier I returns I, whatever
\* query or fragment follows; an input holding none of the three
\* substrings and no "youtube.com/watch?" either is returned unchanged.
C10_ExtractsIdentifier ==
    pc = "fetch_en" =>
        /\ ShapesGiveIdentifier
        /\ (NoShapeSubstring /\ ~Contains(video_url, WatchPrefix)) => video_id = video_url

C10_Witness ==
    /\ pc = "fetch_en"
    /\ video_url = <<"h", "t", "t", "p", "s", ":", "/", "/", "w", "w", "w", ".", "y", "o", "u", "t", "u", "b", "e", ".", "c", "o", "m", "/", "e", "m", "b", "e", "d", "/", "a", "_", "-", "Z", "#", "t", "o", "p">>
    /\ video_id = <<"a", "_", "-", "Z">>

=============================================================================
